---- MODULE Spec2Model ----
(***************************************************************************)
(* Model of robot-dreams/retrieval: the vector-space index (VectorIndex)   *)
(* and the presence-only index (InvertedIndex) over an ordered key-value   *)
(* store (goleveldb).  Keys and values are byte sequences; the store is a  *)
(* function from the keys present to their values.                         *)
(***************************************************************************)
EXTENDS Integers, Sequences, FiniteSets, TLC

VARIABLES
    db,          \* persisted store at the index location: key -> value
    state,       \* "open" | "closed": the handle's *leveldb.DB; "none": no handle
    dfCache,     \* VectorIndex.dfCache: term -> uint32
    dfCacheNil,  \* TRUE when VectorIndex.dfCache is the nil map
    ret,         \* what the last call returned
    occ,         \* history: <<d, t>> -> occurrences of t in texts passed to Add for d
    allOk,       \* history: every Add call so far returned nil
    nAdds,       \* history: number of Add calls so far
    calls        \* callers inside Add: caller -> position and local variables

vars == <<db, state, dfCache, dfCacheNil, ret, occ, allOk, nAdds, calls>>

----------------------------------------------------------------------------
(* Bounds *)

\* Radix of one stored byte (256 in the program); counters keep 4 bytes.
ByteRadix == 2
\* Number of Add calls in one behaviour.
MaxAdds == 2
\* Number of Add calls on the documents of TestVectorIndex.
MaxScenarioAdds == 3
\* Number of calls of increment, counted from the start of one Add, that a
\* store failure can hit.
MaxFaultStep == 4
\* Number of keys a scan yields before its iterator fails.
MaxCut == 1
\* Length of the inputs tokenize is applied to.
MaxInputLen == 4

----------------------------------------------------------------------------
(* Bytes *)

nullByte == 0
ftPrefix == <<102, 116>>
dfPrefix == <<100, 102>>
tfPrefix == <<116, 102>>

\* \s of the regular expression: \t \n \f \r and space
Whitespace == {9, 10, 12, 13, 32}

Range(s) == {s[i] : i \in DOMAIN s}

Min(a, b) == IF a < b THEN a ELSE b

IsPrefix(p, s) == Len(p) <= Len(s) /\ SubSeq(s, 1, Len(p)) = p

\* bytes.Compare(x, y) < 0: the store's key order
BytesLess(x, y) ==
    \E i \in 1..(Min(Len(x), Len(y)) + 1) :
        /\ \A j \in 1..(i - 1) : x[j] = y[j]
        /\ \/ i > Len(x) /\ i <= Len(y)
           \/ i <= Len(x) /\ i <= Len(y) /\ x[i] < y[i]

RECURSIVE SortedKeys(_)
SortedKeys(S) ==
    IF S = {} THEN <<>>
    ELSE LET m == CHOOSE x \in S : \A y \in S \ {x} : BytesLess(x, y)
         IN  <<m>> \o SortedKeys(S \ {m})

\* bytes.IndexByte(key, c): 0-based index of the first c, -1 when there is none
IndexByte(key, c) ==
    IF \E i \in 1..Len(key) : key[i] = c
    THEN (CHOOSE i \in 1..Len(key) : key[i] = c /\ \A j \in 1..(i - 1) : key[j] # c) - 1
    ELSE -1

----------------------------------------------------------------------------
(* tokenize: regexp.MustCompile("\\s+").Split(input, -1) *)

RECURSIVE RunEnd(_, _)
RunEnd(s, i) ==
    IF i <= Len(s) /\ s[i] \in Whitespace THEN RunEnd(s, i + 1) ELSE i

\* FindAllStringIndex: the maximal whitespace runs as <<start, end>>, 0-based, end exclusive
RECURSIVE FindAllIndex(_, _)
FindAllIndex(s, i) ==
    IF i > Len(s) THEN <<>>
    ELSE IF s[i] \in Whitespace
         THEN LET e == RunEnd(s, i) IN <<<<i - 1, e - 1>>>> \o FindAllIndex(s, e)
         ELSE FindAllIndex(s, i + 1)

RECURSIVE SplitLoop(_, _, _, _, _, _)
SplitLoop(s, matches, k, beg, end, strings) ==
    IF k > Len(matches)
    THEN IF end # Len(s) THEN Append(strings, SubSeq(s, beg + 1, Len(s))) ELSE strings
    ELSE LET m == matches[k]
             strings2 == IF m[2] # 0 THEN Append(strings, SubSeq(s, beg + 1, m[1]))
                         ELSE strings
         IN  SplitLoop(s, matches, k + 1, m[2], m[1], strings2)

\* Splitting that drops the empty strings, as strings.Fields does
tokenize_fields(input) ==
    SelectSeq(SplitLoop(input, FindAllIndex(input, 1), 1, 0, 0, <<>>),
              LAMBDA token : token # <<>>)

tokenize(input) ==
    IF Len(input) = 0 THEN <<<<>>>>
    ELSE SplitLoop(input, FindAllIndex(input, 1), 1, 0, 0, <<>>)

\* occurrences of term t in a token sequence
RECURSIVE Count(_, _)
Count(tokens, t) ==
    IF tokens = <<>> THEN 0
    ELSE (IF Head(tokens) = t THEN 1 ELSE 0) + Count(Tail(tokens), t)

----------------------------------------------------------------------------
(* Key codec *)

joinWithNullSep(token, filename) == token \o <<nullByte>> \o filename

ftKey(filename, token) == ftPrefix \o joinWithNullSep(filename, token)
dfKey(token) == dfPrefix \o token
\* tfKey with the two components in the order of the "ft" key
tfKey_swapped(token, filename) == tfPrefix \o joinWithNullSep(filename, token)
tfKey(token, filename) == tfPrefix \o joinWithNullSep(token, filename)

----------------------------------------------------------------------------
(* Fixed-width counters: binary.BigEndian over 4 bytes *)

MaxUint32 == ByteRadix * ByteRadix * ByteRadix * ByteRadix - 1

PutUint32(v) ==
    << (v \div (ByteRadix * ByteRadix * ByteRadix)) % ByteRadix,
       (v \div (ByteRadix * ByteRadix)) % ByteRadix,
       (v \div ByteRadix) % ByteRadix,
       v % ByteRadix >>

Uint32(b) ==
    ((b[1] * ByteRadix + b[2]) * ByteRadix + b[3]) * ByteRadix + b[4]

----------------------------------------------------------------------------
(* The store *)

EmptyStore == <<>>

Put(store, key, value) ==
    [k \in (DOMAIN store) \cup {key} |-> IF k = key THEN value ELSE store[k]]

\* iterate: the keys iterFunc is called with, ascending.  On a closed DB
\* NewIterator hands back an empty iterator carrying the error; iterate only
\* logs iter.Error() and returns nil.
iterate(store, st, prefix) ==
    IF st # "open" THEN <<>>
    ELSE SortedKeys({k \in DOMAIN store : IsPrefix(prefix, k)})

----------------------------------------------------------------------------
(* VectorIndex: persisted counters and the df cache *)

EmptyCache == <<>>

\* loadDFCache that hands back a fresh map without the scan
loadDFCache_noScan(store, st) ==
    [dfCache |-> EmptyCache, isNil |-> FALSE, err |-> "nil"]

\* loadDFCache: scan of the "df" prefix; the first value that is not 4 bytes
\* long aborts the scan and (nil, err) is returned
loadDFCache(store, st) ==
    LET keys == iterate(store, st, dfPrefix)
        terms == {SubSeq(keys[i], Len(dfPrefix) + 1, Len(keys[i])) : i \in 1..Len(keys)}
    IN  IF \E i \in 1..Len(keys) : Len(store[keys[i]]) # 4
        THEN [dfCache |-> EmptyCache, isNil |-> TRUE, err |-> "CorruptIndex"]
        ELSE [dfCache |-> [t \in terms |-> Uint32(store[dfPrefix \o t])],
              isNil |-> FALSE, err |-> "nil"]

\* increment without the check against the largest value
increment_wrap(store, st, keyBytes) ==
    IF st # "open" THEN [db |-> store, err |-> "ErrClosed"]
    ELSE IF keyBytes \notin DOMAIN store
    THEN [db |-> Put(store, keyBytes, PutUint32(1)), err |-> "nil"]
    ELSE LET valueBytes == store[keyBytes]
         IN  IF Len(valueBytes) = 0 THEN [db |-> store, err |-> "panic"]
             ELSE IF Len(valueBytes) # 4 THEN [db |-> store, err |-> "CorruptIndex"]
             ELSE [db |-> Put(store, keyBytes,
                              PutUint32((Uint32(valueBytes) + 1) % (MaxUint32 + 1))),
                   err |-> "nil"]

\* VectorIndex.increment.  The error of Has is dropped, so on a closed DB has
\* is false and the Put that follows reports the closed DB.  A present value
\* of length 0 is read as 0 and PutUint32 then indexes the empty slice.
increment(store, st, keyBytes) ==
    IF st # "open" THEN [db |-> store, err |-> "ErrClosed"]
    ELSE IF keyBytes \notin DOMAIN store
    THEN [db |-> Put(store, keyBytes, PutUint32(1)), err |-> "nil"]
    ELSE LET valueBytes == store[keyBytes]
         IN  IF Len(valueBytes) = 0 THEN [db |-> store, err |-> "panic"]
             ELSE IF Len(valueBytes) # 4 THEN [db |-> store, err |-> "CorruptIndex"]
             ELSE IF Uint32(valueBytes) = MaxUint32 THEN [db |-> store, err |-> "Overflow"]
             ELSE [db |-> Put(store, keyBytes, PutUint32(Uint32(valueBytes) + 1)),
                   err |-> "nil"]

\* v.dfCache[token] = 1 in place of the increment
CacheInc_assign(cache, token) ==
    [t \in (DOMAIN cache) \cup {token} |-> IF t = token THEN 1 ELSE cache[t]]

\* v.dfCache[token]++ on a non-nil map (uint32 arithmetic)
CacheInc(cache, token) ==
    LET old == IF token \in DOMAIN cache THEN cache[token] ELSE 0
    IN  [t \in (DOMAIN cache) \cup {token} |->
            IF t = token THEN (old + 1) % (MaxUint32 + 1) ELSE cache[t]]

\* The loop of VectorIndex.Add from token i on: ft, df, tf in this order, the
\* first error returns; the cache entry moves after the three increments, and
\* assigning into the nil map panics.
RECURSIVE AddLoop(_, _, _, _, _, _, _)
AddLoop(store, st, cache, cacheNil, filename, tokens, i) ==
    IF i > Len(tokens) THEN [db |-> store, dfCache |-> cache, err |-> "nil"]
    ELSE LET token == tokens[i]
             r1 == increment(store, st, ftKey(filename, token))
             r2 == increment(r1.db, st, dfKey(token))
             r3 == increment(r2.db, st, tfKey(token, filename))
         IN  IF r1.err # "nil" THEN [db |-> r1.db, dfCache |-> cache, err |-> r1.err]
             ELSE IF r2.err # "nil" THEN [db |-> r2.db, dfCache |-> cache, err |-> r2.err]
             ELSE IF r3.err # "nil" THEN [db |-> r3.db, dfCache |-> cache, err |-> r3.err]
             ELSE IF cacheNil THEN [db |-> r3.db, dfCache |-> cache, err |-> "panic"]
             ELSE AddLoop(r3.db, st, CacheInc(cache, token), cacheNil, filename, tokens, i + 1)

VectorAdd(store, st, cache, cacheNil, filename, contents) ==
    AddLoop(store, st, cache, cacheNil, filename, tokenize(contents), 1)

----------------------------------------------------------------------------
(* float64 values of the scoring path: exact non-negative rationals, +Inf, NaN *)

RECURSIVE Gcd(_, _)
Gcd(a, b) == IF b = 0 THEN a ELSE Gcd(b, a % b)

Fin(n, d) == LET g == Gcd(n, d) IN [k |-> "fin", n |-> n \div g, d |-> d \div g]
Inf == [k |-> "inf", n |-> 0, d |-> 0]
NaN == [k |-> "nan", n |-> 0, d |-> 0]
FZero == Fin(0, 1)

\* (a/b) * (c/d), cancelling before multiplying
RatMul(a, b, c, d) ==
    LET g1 == Gcd(a, d)
        g2 == Gcd(c, b)
    IN  Fin((a \div g1) * (c \div g2), (b \div g2) * (d \div g1))

\* a/b > c/d for b, d > 0, by integer parts and then the reciprocals of the
\* fractional parts
RECURSIVE RatGreater(_, _, _, _)
RatGreater(a, b, c, d) ==
    IF a \div b # c \div d THEN a \div b > c \div d
    ELSE IF a % b = 0 THEN FALSE
    ELSE IF c % d = 0 THEN TRUE
    ELSE RatGreater(d, c % d, b, a % b)

IsZero(x) == x.k = "fin" /\ x.n = 0

FAdd(x, y) ==
    IF x.k = "nan" \/ y.k = "nan" THEN NaN
    ELSE IF x.k = "inf" \/ y.k = "inf" THEN Inf
    ELSE LET g == Gcd(x.d, y.d)
         IN  Fin(x.n * (y.d \div g) + y.n * (x.d \div g), (x.d \div g) * y.d)

FMul(x, y) ==
    IF x.k = "nan" \/ y.k = "nan" THEN NaN
    ELSE IF x.k = "inf" \/ y.k = "inf"
         THEN (IF IsZero(x) \/ IsZero(y) THEN NaN ELSE Inf)
    ELSE RatMul(x.n, x.d, y.n, y.d)

FDiv(x, y) ==
    IF x.k = "nan" \/ y.k = "nan" THEN NaN
    ELSE IF x.k = "inf" THEN (IF y.k = "inf" THEN NaN ELSE Inf)
    ELSE IF y.k = "inf" THEN FZero
    ELSE IF y.n = 0 THEN (IF x.n = 0 THEN NaN ELSE Inf)
    ELSE RatMul(x.n, x.d, y.d, y.n)

\* x > y of float64: false whenever a NaN is involved
FGreater(x, y) ==
    IF x.k = "nan" \/ y.k = "nan" THEN FALSE
    ELSE IF x.k = "inf" THEN y.k # "inf"
    ELSE IF y.k = "inf" THEN FALSE
    ELSE RatGreater(x.n, x.d, y.n, y.d)

RECURSIVE FSum(_, _)
FSum(S, f) ==
    IF S = {} THEN FZero
    ELSE LET t == CHOOSE t \in S : TRUE IN FAdd(f[t], FSum(S \ {t}, f))

----------------------------------------------------------------------------
(* Scoring and ranking *)

\* documentVector with the separator left off the scan prefix
documentVector_noSep(store, st, cache, filename) ==
    LET prefix == ftPrefix \o filename
        keys == iterate(store, st, prefix)
        terms == {SubSeq(keys[i], Len(prefix) + 1, Len(keys[i])) : i \in 1..Len(keys)}
    IN  IF \E i \in 1..Len(keys) : Len(store[keys[i]]) # 4
        THEN [vec |-> <<>>, err |-> "CorruptIndex"]
        ELSE [vec |-> [term \in terms |->
                        FDiv(Fin(Uint32(store[prefix \o term]), 1),
                             Fin(IF term \in DOMAIN cache THEN cache[term] ELSE 0, 1))],
              err |-> "nil"]

\* VectorIndex.documentVector: scan of "ft" + filename + 0x00; a read of the
\* cache for a term it lacks (or of the nil cache) gives 0
documentVector(store, st, cache, filename) ==
    LET prefix == ftPrefix \o filename \o <<nullByte>>
        keys == iterate(store, st, prefix)
        terms == {SubSeq(keys[i], Len(prefix) + 1, Len(keys[i])) : i \in 1..Len(keys)}
    IN  IF \E i \in 1..Len(keys) : Len(store[keys[i]]) # 4
        THEN [vec |-> <<>>, err |-> "CorruptIndex"]
        ELSE [vec |-> [term \in terms |->
                        FDiv(Fin(Uint32(store[prefix \o term]), 1),
                             Fin(IF term \in DOMAIN cache THEN cache[term] ELSE 0, 1))],
              err |-> "nil"]

\* VectorIndex.queryVector: terms the cache lacks are left out
queryVector(cache, query) ==
    LET tokens == tokenize(query)
    IN  [term \in Range(tokens) \cap DOMAIN cache |->
            FDiv(Fin(Count(tokens, term), 1), Fin(cache[term], 1))]

dotProduct(x, y) ==
    FSum(DOMAIN x, [term \in DOMAIN x |->
                       FMul(x[term], IF term \in DOMAIN y THEN y[term] ELSE FZero)])

magnitude(vector) ==
    FSum(DOMAIN vector, [term \in DOMAIN vector |-> FMul(vector[term], vector[term])])

queryDocumentSimilarity(store, st, cache, query, filename) ==
    LET q == queryVector(cache, query)
        d == documentVector(store, st, cache, filename)
    IN  IF d.err # "nil" THEN [score |-> FZero, err |-> d.err]
        ELSE [score |-> FDiv(dotProduct(q, d.vec), FMul(magnitude(q), magnitude(d.vec))),
              err |-> "nil"]

uniqueTerms(query) == Range(tokenize(query))

\* The scan phase of Search: for every distinct query term the keys under
\* "tf" + term + 0x00, each parsed at its first 0x00
SearchScan(store, st, query) ==
    LET keysOf(term) == Range(iterate(store, st, tfPrefix \o term \o <<nullByte>>))
        keys == UNION {keysOf(term) : term \in uniqueTerms(query)}
    IN  IF \E key \in keys : IndexByte(key, nullByte) < 0
        THEN [candidates |-> {}, err |-> "CorruptIndex"]
        ELSE [candidates |-> {SubSeq(key, IndexByte(key, nullByte) + 2, Len(key)) : key \in keys},
              err |-> "nil"]

\* Less for ascending scores
Less_ascending(x, y) == FGreater(y.score, x.score)

\* byScore.Less
Less(x, y) == FGreater(x.score, y.score)

\* sort.Sort on at most 12 elements is insertionSort
RECURSIVE InsertLoop(_, _)
InsertLoop(data, j) ==
    IF j > 1 /\ Less(data[j], data[j - 1])
    THEN InsertLoop([data EXCEPT ![j] = data[j - 1], ![j - 1] = data[j]], j - 1)
    ELSE data

RECURSIVE insertionSort(_, _)
insertionSort(data, i) ==
    IF i > Len(data) THEN data ELSE insertionSort(InsertLoop(data, i), i + 1)

RECURSIVE Perms(_)
Perms(S) ==
    IF S = {} THEN {<<>>}
    ELSE UNION {{<<x>> \o p : p \in Perms(S \ {x})} : x \in S}

\* Search that answers a query without candidates with an error
VectorSearch_failEmpty(store, st, cache, query, order) ==
    IF order = <<>> THEN [result |-> <<>>, err |-> "NotFound"]
    ELSE [result |-> order, err |-> "nil"]

\* VectorIndex.Search; order is the order in which the candidates map is ranged over
VectorSearch(store, st, cache, query, order) ==
    LET scored == [i \in 1..Len(order) |->
                      queryDocumentSimilarity(store, st, cache, query, order[i])]
    IN  IF SearchScan(store, st, query).err # "nil"
        THEN [result |-> <<>>, err |-> SearchScan(store, st, query).err]
        ELSE IF \E i \in 1..Len(order) : scored[i].err # "nil"
        THEN [result |-> <<>>, err |-> "CorruptIndex"]
        ELSE LET scoredCandidates ==
                     [i \in 1..Len(order) |-> [candidate |-> order[i], score |-> scored[i].score]]
                 sorted == insertionSort(scoredCandidates, 2)
             IN  [result |-> [i \in 1..Len(sorted) |-> sorted[i].candidate], err |-> "nil"]

----------------------------------------------------------------------------
(* Readers of the persisted counters *)

Counter(store, key) == IF key \in DOMAIN store THEN Uint32(store[key]) ELSE 0

\* The three persisted mappings, by the key layout stated with the prefixes
FT(d, t) == Counter(db, <<102, 116>> \o d \o <<0>> \o t)
TF(t, d) == Counter(db, <<116, 102>> \o t \o <<0>> \o d)
CorpusCount(t) == Counter(db, <<100, 102>> \o t)

----------------------------------------------------------------------------
(* Inputs *)

\* Texts handed to Add: the empty text, one word, a word that the first is a
\* proper prefix of, a repeated word, two words with a run of blanks between
Texts ==
    { <<>>, <<104>>, <<104, 104>>, <<104, 32, 104>>, <<104, 32, 9, 104, 104>> }
Docs == {<<97>>, <<97, 98>>}
\* Queries handed to Search: the empty query, one word, a repeated word, two
\* words, a word no text holds
Queries ==
    { <<>>, <<104>>, <<104, 32, 104>>, <<104, 32, 104, 104>>, <<104, 104, 104>> }
Terms == UNION {Range(tokenize(x)) : x \in Texts \cup Queries}

Occ(d, t) == IF <<d, t>> \in DOMAIN occ THEN occ[<<d, t>>] ELSE 0

OccAfter(filename, contents) ==
    LET tokens == tokenize(contents)
        new == {<<filename, t>> : t \in Range(tokens)}
    IN  [p \in (DOMAIN occ) \cup new |->
            (IF p \in DOMAIN occ THEN occ[p] ELSE 0)
            + (IF p \in new THEN Count(tokens, p[2]) ELSE 0)]

\* The store n successful calls Add("a", "h") leave behind
AgedStore(n) ==
    LET d == <<97>>
        t == <<104>>
    IN  Put(Put(Put(EmptyStore, ftKey(d, t), PutUint32(n)),
                dfKey(t), PutUint32(n)),
            tfKey(t, d), PutUint32(n))

AgedOcc(n) == [p \in {<<<<97>>, <<104>>>>} |-> n]

Result(op, filename, text, err, result) ==
    [op |-> op, filename |-> filename, text |-> text, err |-> err, result |-> result]

----------------------------------------------------------------------------
(* Operations of the vector index *)

\* OpenVectorIndex on a fresh location
Init ==
    /\ db = EmptyStore
    /\ occ = <<>>
    /\ state = "open"
    /\ dfCache = loadDFCache(db, "open").dfCache
    /\ dfCacheNil = loadDFCache(db, "open").isNil
    /\ ret = Result("Open", <<>>, <<>>, "nil", <<>>)
    /\ allOk = TRUE
    /\ nAdds = 0
    /\ calls = <<>>

\* OpenVectorIndex on a location that earlier sessions have brought to the
\* top of the counter range by successful calls Add("a", "h")
InitAged ==
    /\ db = AgedStore(MaxUint32)
    /\ occ = AgedOcc(MaxUint32)
    /\ state = "open"
    /\ dfCache = loadDFCache(db, "open").dfCache
    /\ dfCacheNil = loadDFCache(db, "open").isNil
    /\ ret = Result("Open", <<>>, <<>>, "nil", <<>>)
    /\ allOk = TRUE
    /\ nAdds = 0
    /\ calls = <<>>

Add(filename, contents) ==
    /\ state # "none"
    /\ LET r == VectorAdd(db, state, dfCache, dfCacheNil, filename, contents)
       IN  /\ db' = r.db
           /\ dfCache' = r.dfCache
           /\ state' = IF r.err = "panic" THEN "none" ELSE state
           /\ ret' = Result("Add", <<>>, <<>>, r.err, <<>>)
           /\ allOk' = (allOk /\ r.err = "nil")
    /\ occ' = OccAfter(filename, contents)
    /\ nAdds' = nAdds + 1
    /\ UNCHANGED <<dfCacheNil, calls>>

\* Search that stores the zero it reads for a query term the cache lacks
Search_caching(query) ==
    /\ state # "none"
    /\ \E order \in Perms(SearchScan(db, state, query).candidates) :
          LET r == VectorSearch(db, state, dfCache, query, order)
          IN  ret' = Result("Search", <<>>, query, r.err, r.result)
    /\ dfCache' = [t \in (DOMAIN dfCache) \cup uniqueTerms(query) |->
                      IF t \in DOMAIN dfCache THEN dfCache[t] ELSE 0]
    /\ UNCHANGED <<db, state, dfCacheNil, occ, allOk, nAdds, calls>>

Search(query) ==
    /\ state # "none"
    /\ \E order \in Perms(SearchScan(db, state, query).candidates) :
          LET r == VectorSearch(db, state, dfCache, query, order)
          IN  ret' = Result("Search", <<>>, query, r.err, r.result)
    /\ UNCHANGED <<db, state, dfCache, dfCacheNil, occ, allOk, nAdds, calls>>

Close ==
    /\ state # "none"
    /\ state' = "closed"
    /\ ret' = Result("Close", <<>>, <<>>, IF state = "open" THEN "nil" ELSE "ErrClosed", <<>>)
    /\ UNCHANGED <<db, dfCache, dfCacheNil, occ, allOk, nAdds, calls>>

\* OpenVectorIndex: the error of loadDFCache is dropped.  While the location
\* is held open OpenFile fails on the lock and the caller gets (nil, err).
OpenVectorIndex ==
    IF state = "open"
    THEN /\ ret' = Result("Open", <<>>, <<>>, "ErrLocked", <<>>)
         /\ UNCHANGED <<db, state, dfCache, dfCacheNil, occ, allOk, nAdds, calls>>
    ELSE LET r == loadDFCache(db, "open")
         IN  /\ state' = "open"
             /\ dfCache' = r.dfCache
             /\ dfCacheNil' = r.isNil
             /\ ret' = Result("Open", <<>>, <<>>, "nil", <<>>)
             /\ UNCHANGED <<db, occ, allOk, nAdds, calls>>

Next ==
    \/ \E d \in Docs, x \in Texts : nAdds < MaxAdds /\ Add(d, x)
    \/ \E q \in Queries : Search(q)
    \/ Close
    \/ OpenVectorIndex

Spec == Init /\ [][Next]_vars

\* At the top of the counter range the scores leave the range of the model's
\* integers, so this specification leaves Search out
NextAged ==
    \/ \E d \in Docs, x \in Texts : nAdds < MaxAdds /\ Add(d, x)
    \/ Close
    \/ OpenVectorIndex

SpecAged == InitAged /\ [][NextAged]_vars

----------------------------------------------------------------------------
(* The vector index on the documents of TestVectorIndex *)

hello == <<104, 101, 108, 108, 111>>
world == <<119, 111, 114, 108, 100>>
tiger == <<116, 105, 103, 101, 114>>
rumic == <<114, 117, 109, 105, 99>>
sp == <<32>>

ScenarioA ==
    { [filename |-> <<97>>,
       contents |-> hello \o sp \o hello \o sp \o hello \o sp \o hello \o sp \o world],
      [filename |-> <<98>>, contents |-> hello \o sp \o tiger \o sp \o tiger],
      [filename |-> <<99>>, contents |-> rumic \o sp \o tiger] }

ScenarioAQueries == {hello, tiger, world, rumic, tiger \o sp \o hello}

NextScenarioA ==
    \/ \E input \in ScenarioA :
          nAdds < MaxScenarioAdds /\ Add(input.filename, input.contents)
    \/ \E q \in ScenarioAQueries : Search(q)
    \/ Close
    \/ OpenVectorIndex

SpecScenarioA == Init /\ [][NextScenarioA]_vars

----------------------------------------------------------------------------
(* The vector index on a location whose "df" value may be damaged *)

DamagedValues == {PutUint32(1), <<>>, <<0, 0, 1>>}

InitCorrupt ==
    /\ \E v \in DamagedValues : db = Put(AgedStore(1), dfKey(<<104>>), v)
    /\ occ = AgedOcc(1)
    /\ state = "none"
    /\ dfCache = EmptyCache
    /\ dfCacheNil = TRUE
    /\ ret = Result("none", <<>>, <<>>, "nil", <<>>)
    /\ allOk = TRUE
    /\ nAdds = 0
    /\ calls = <<>>

SpecCorrupt == InitCorrupt /\ [][Next]_vars

----------------------------------------------------------------------------
(* The vector index on a store whose operations may fail *)

\* What goes wrong in one call of increment: nothing, or Has, Get or Put
\* returns an error
Faults == {"none", "has", "get", "put"}

\* increment with one failing store call.  Has returns (false, err) and the
\* err is overwritten unread, so the key is taken as absent and 1 is put.
\* met: the failing call was made; wrote: a Put went through.
incrementFault(store, st, keyBytes, fault) ==
    IF st # "open"
    THEN [db |-> store, err |-> "ErrClosed", met |-> TRUE, wrote |-> FALSE]
    ELSE IF fault = "has"
    THEN [db |-> Put(store, keyBytes, PutUint32(1)), err |-> "nil",
          met |-> TRUE, wrote |-> TRUE]
    ELSE IF fault = "get" /\ keyBytes \in DOMAIN store
    THEN [db |-> store, err |-> "IOError", met |-> TRUE, wrote |-> FALSE]
    ELSE LET r == increment(store, st, keyBytes)
         IN  IF fault = "put" /\ r.err = "nil"
             THEN [db |-> store, err |-> "IOError", met |-> TRUE, wrote |-> FALSE]
             ELSE [db |-> r.db, err |-> r.err, met |-> FALSE, wrote |-> r.err = "nil"]

\* The fault of the k-th call of increment within one Add
FaultAt(plan, k) == IF k \in DOMAIN plan THEN plan[k] ELSE "none"

\* One turn of the inner loop of Add (lines 171-176): skipped once an error
\* has been returned.  late: a Put went through in or after a call of
\* increment that met a failure.
IncrementStep(acc, st, keyBytes, fault) ==
    IF acc.err # "nil" THEN acc
    ELSE LET r == incrementFault(acc.db, st, keyBytes, fault)
         IN  [db |-> r.db, err |-> r.err, met |-> acc.met \/ r.met,
              late |-> acc.late \/ (r.wrote /\ (acc.met \/ r.met))]

\* The loop of VectorIndex.Add from token i on, under a plan of failures.
\* at: the token the call returned at, 0 when it ran through.
RECURSIVE AddLoopFault(_, _, _, _, _, _, _, _)
AddLoopFault(acc, st, cache, cacheNil, filename, tokens, i, plan) ==
    IF i > Len(tokens)
    THEN [db |-> acc.db, dfCache |-> cache, err |-> "nil",
          met |-> acc.met, late |-> acc.late, at |-> 0]
    ELSE LET token == tokens[i]
             a1 == IncrementStep(acc, st, ftKey(filename, token), FaultAt(plan, 3 * i - 2))
             a2 == IncrementStep(a1, st, dfKey(token), FaultAt(plan, 3 * i - 1))
             a3 == IncrementStep(a2, st, tfKey(token, filename), FaultAt(plan, 3 * i))
         IN  IF a3.err # "nil" \/ cacheNil
             THEN [db |-> a3.db, dfCache |-> cache,
                   err |-> IF a3.err # "nil" THEN a3.err ELSE "panic",
                   met |-> a3.met, late |-> a3.late, at |-> i]
             ELSE AddLoopFault(a3, st, CacheInc(cache, token), cacheNil,
                               filename, tokens, i + 1, plan)

VectorAddFault(store, st, cache, cacheNil, filename, contents, plan) ==
    AddLoopFault([db |-> store, err |-> "nil", met |-> FALSE, late |-> FALSE],
                 st, cache, cacheNil, filename, tokenize(contents), 1, plan)

\* A plan with the one failure f at the k-th call of increment
OneFault(k, f) == [j \in 1..k |-> IF j = k THEN f ELSE "none"]

\* The plans: no failure; one failure among the first MaxFaultStep calls of
\* increment; a failing Has followed by a failing Get or Put
FaultPlans ==
    {<<>>}
    \cup {OneFault(k, f) : k \in 1..MaxFaultStep, f \in Faults \ {"none"}}
    \cup {[j \in 1..k2 |-> IF j = k2 THEN f ELSE IF j = k1 THEN "has" ELSE "none"] :
             k1 \in 1..(MaxFaultStep - 1), k2 \in 2..MaxFaultStep, f \in {"get", "put"}}

\* An iterator that fails after cut keys: Next returns false, and iterate
\* only logs iter.Error().  The scans of one call have disjoint prefixes, so
\* the failing scan sees the store without its later keys.
NoCut == [prefix |-> <<>>, cut |-> -1]

CutStore(store, st, f) ==
    IF f.cut < 0 THEN store
    ELSE LET keys == iterate(store, st, f.prefix)
             hidden == {keys[i] : i \in (f.cut + 1)..Len(keys)}
         IN  [k \in (DOMAIN store) \ hidden |-> store[k]]

\* The prefixes Search scans: one per distinct query term, one per candidate
SearchPrefixes(store, st, query) ==
    {tfPrefix \o term \o <<nullByte>> : term \in uniqueTerms(query)}
    \cup {ftPrefix \o d \o <<nullByte>> : d \in SearchScan(store, st, query).candidates}

Cuts(store, st, query) ==
    {NoCut} \cup {[prefix |-> p, cut |-> c] :
                     p \in SearchPrefixes(store, st, query), c \in 0..MaxCut}

\* The calls under failures: a repeated word, and two different words
FaultTexts == { <<104, 32, 104>>, <<104, 32, 9, 104, 104>> }
FaultQueries == { <<104, 32, 104, 104>> }

FaultResult(op, filename, text, err, result, met, late, at) ==
    [op |-> op, filename |-> filename, text |-> text, err |-> err,
     result |-> result, met |-> met, late |-> late, at |-> at]

InitFault ==
    /\ db = EmptyStore
    /\ occ = <<>>
    /\ state = "open"
    /\ dfCache = loadDFCache(db, "open").dfCache
    /\ dfCacheNil = loadDFCache(db, "open").isNil
    /\ ret = FaultResult("Open", <<>>, <<>>, "nil", <<>>, FALSE, FALSE, 0)
    /\ allOk = TRUE
    /\ nAdds = 0
    /\ calls = <<>>

FaultAdd(filename, contents, plan) ==
    /\ state # "none"
    /\ LET r == VectorAddFault(db, state, dfCache, dfCacheNil, filename, contents, plan)
       IN  /\ db' = r.db
           /\ dfCache' = r.dfCache
           /\ state' = IF r.err = "panic" THEN "none" ELSE state
           /\ ret' = FaultResult("Add", filename, contents, r.err, <<>>, r.met, r.late, r.at)
           /\ allOk' = (allOk /\ r.err = "nil")
    /\ occ' = OccAfter(filename, contents)
    /\ nAdds' = nAdds + 1
    /\ UNCHANGED <<dfCacheNil, calls>>

\* Search with at most one failing scan.  On a closed DB every iterator
\* carries the error of the closed DB.
FaultSearch(query, f) ==
    /\ state # "none"
    /\ \E view \in {CutStore(db, state, f)} :
          \E order \in Perms(SearchScan(view, state, query).candidates) :
             \E r \in {VectorSearch(view, state, dfCache, query, order)} :
                ret' = FaultResult("Search", <<>>, query, r.err, r.result,
                                   f.cut >= 0 \/ state # "open", FALSE, 0)
    /\ UNCHANGED <<db, state, dfCache, dfCacheNil, occ, allOk, nAdds, calls>>

FaultClose ==
    /\ state # "none"
    /\ state' = "closed"
    /\ ret' = FaultResult("Close", <<>>, <<>>,
                          IF state = "open" THEN "nil" ELSE "ErrClosed", <<>>, FALSE, FALSE, 0)
    /\ UNCHANGED <<db, dfCache, dfCacheNil, occ, allOk, nAdds, calls>>

FaultOpen ==
    IF state = "open"
    THEN /\ ret' = FaultResult("Open", <<>>, <<>>, "ErrLocked", <<>>, FALSE, FALSE, 0)
         /\ UNCHANGED <<db, state, dfCache, dfCacheNil, occ, allOk, nAdds, calls>>
    ELSE LET r == loadDFCache(db, "open")
         IN  /\ state' = "open"
             /\ dfCache' = r.dfCache
             /\ dfCacheNil' = r.isNil
             /\ ret' = FaultResult("Open", <<>>, <<>>, "nil", <<>>, FALSE, FALSE, 0)
             /\ UNCHANGED <<db, occ, allOk, nAdds, calls>>

NextFault ==
    \/ \E d \in Docs, x \in FaultTexts, plan \in FaultPlans :
          nAdds < MaxAdds /\ FaultAdd(d, x, plan)
    \/ \E q \in FaultQueries : \E f \in Cuts(db, state, q) : FaultSearch(q, f)
    \/ FaultClose
    \/ FaultOpen

SpecFault == InitFault /\ [][NextFault]_vars

----------------------------------------------------------------------------
(* InvertedIndex *)

\* The loop of InvertedIndex.Add: one Put of an empty value per token
RECURSIVE InvertedAddLoop(_, _, _, _, _)
InvertedAddLoop(store, st, filename, tokens, i) ==
    IF i > Len(tokens) THEN [db |-> store, err |-> "nil"]
    ELSE IF st # "open" THEN [db |-> store, err |-> "ErrClosed"]
    ELSE InvertedAddLoop(Put(store, joinWithNullSep(tokens[i], filename), <<>>),
                         st, filename, tokens, i + 1)

\* InvertedIndex.Search: the keys under query + 0x00 in store order, each
\* parsed at its first 0x00
InvertedSearch(store, st, query) ==
    LET keys == iterate(store, st, query \o <<nullByte>>)
    IN  IF \E i \in 1..Len(keys) : IndexByte(keys[i], nullByte) < 0
        THEN [result |-> <<>>, err |-> "CorruptIndex"]
        ELSE [result |-> [i \in 1..Len(keys) |->
                            SubSeq(keys[i], IndexByte(keys[i], nullByte) + 2, Len(keys[i]))],
              err |-> "nil"]

InvertedDocs == {<<97>>, <<97, 98>>, <<98>>}

InvertedAdd(filename, contents) ==
    /\ nAdds < MaxAdds
    /\ LET r == InvertedAddLoop(db, state, filename, tokenize(contents), 1)
       IN  /\ db' = r.db
           /\ ret' = Result("Add", <<>>, <<>>, r.err, <<>>)
           /\ allOk' = (allOk /\ r.err = "nil")
    /\ occ' = OccAfter(filename, contents)
    /\ nAdds' = nAdds + 1
    /\ UNCHANGED <<state, dfCache, dfCacheNil, calls>>

InvertedSearchCall(query) ==
    /\ LET r == InvertedSearch(db, state, query)
       IN  ret' = Result("Search", <<>>, query, r.err, r.result)
    /\ UNCHANGED <<db, state, dfCache, dfCacheNil, occ, allOk, nAdds, calls>>

InvertedClose == Close

OpenInvertedIndex ==
    IF state = "open"
    THEN /\ ret' = Result("Open", <<>>, <<>>, "ErrLocked", <<>>)
         /\ UNCHANGED <<db, state, dfCache, dfCacheNil, occ, allOk, nAdds, calls>>
    ELSE /\ state' = "open"
         /\ ret' = Result("Open", <<>>, <<>>, "nil", <<>>)
         /\ UNCHANGED <<db, dfCache, dfCacheNil, occ, allOk, nAdds, calls>>

InitInverted ==
    /\ db = EmptyStore
    /\ occ = <<>>
    /\ state = "open"
    /\ dfCache = EmptyCache
    /\ dfCacheNil = TRUE
    /\ ret = Result("Open", <<>>, <<>>, "nil", <<>>)
    /\ allOk = TRUE
    /\ nAdds = 0
    /\ calls = <<>>

NextInverted ==
    \/ \E d \in InvertedDocs, x \in Texts : InvertedAdd(d, x)
    \/ \E q \in Queries : InvertedSearchCall(q)
    \/ InvertedClose
    \/ OpenInvertedIndex

SpecInverted == InitInverted /\ [][NextInverted]_vars

----------------------------------------------------------------------------
(* Either index on a fresh location.  The presence-only index has no cache: *)
(* its dfCacheNil stays TRUE, the vector index's stays FALSE.               *)

InitEither == Init \/ InitInverted

NextEither ==
    \/ \E d \in Docs, x \in Texts : ~dfCacheNil /\ nAdds < MaxAdds /\ Add(d, x)
    \/ \E q \in Queries : ~dfCacheNil /\ Search(q)
    \/ ~dfCacheNil /\ Close
    \/ ~dfCacheNil /\ OpenVectorIndex
    \/ \E d \in InvertedDocs, x \in Texts : dfCacheNil /\ InvertedAdd(d, x)
    \/ \E q \in Queries : dfCacheNil /\ InvertedSearchCall(q)
    \/ dfCacheNil /\ InvertedClose
    \/ dfCacheNil /\ OpenInvertedIndex

SpecEither == InitEither /\ [][NextEither]_vars

----------------------------------------------------------------------------
(* increment on its own, as TestVectorIndexIncrement drives it *)

IncKeys == {<<1, 2, 3, 4>>, <<1, 2, 3, 5>>}

\* occ counts the calls of increment per key
InitIncrement ==
    /\ db = EmptyStore
    /\ occ = [k \in IncKeys |-> 0]
    /\ state = "open"
    /\ dfCache = EmptyCache
    /\ dfCacheNil = FALSE
    /\ ret = Result("Open", <<>>, <<>>, "nil", <<>>)
    /\ allOk = TRUE
    /\ nAdds = 0
    /\ calls = <<>>

\* A call that panics ends the test process
Increment(key) ==
    /\ state # "none"
    /\ occ[key] < MaxUint32 + 2
    /\ LET r == increment(db, state, key)
       IN  /\ db' = r.db
           /\ state' = IF r.err = "panic" THEN "none" ELSE state
           /\ ret' = Result("increment", key, <<>>, r.err, <<>>)
    /\ occ' = [occ EXCEPT ![key] = @ + 1]
    /\ UNCHANGED <<dfCache, dfCacheNil, allOk, nAdds, calls>>

NextIncrement == \E key \in IncKeys : Increment(key)

SpecIncrement == InitIncrement /\ [][NextIncrement]_vars

\* increment on a location where one of the keys already holds a value, of
\* the right length or damaged
InitIncrementStored ==
    /\ \E key \in IncKeys, v \in DamagedValues : db = Put(EmptyStore, key, v)
    /\ occ = [k \in IncKeys |-> 0]
    /\ state = "open"
    /\ dfCache = EmptyCache
    /\ dfCacheNil = FALSE
    /\ ret = Result("Open", <<>>, <<>>, "nil", <<>>)
    /\ allOk = TRUE
    /\ nAdds = 0
    /\ calls = <<>>

SpecIncrementStored == InitIncrementStored /\ [][NextIncrement]_vars

----------------------------------------------------------------------------
(* Two callers inside VectorIndex.Add at the same time.  Add takes no lock, *)
(* so the store calls of increment and the accesses to the cache map are   *)
(* the steps that interleave.                                               *)

Callers == {1, 2}
ConcurrentTexts == { <<104>>, <<104, 32, 104>> }

\* The loop over ftKey, dfKey, tfKey with dfKey in the place of tfKey
KeyOf_dfTwice(call) ==
    LET token == call.tokens[call.i]
    IN  IF call.k = 1 THEN ftKey(call.filename, token) ELSE dfKey(token)

\* The key the inner loop of Add is at
KeyOf(call) ==
    LET token == call.tokens[call.i]
    IN  IF call.k = 1 THEN ftKey(call.filename, token)
        ELSE IF call.k = 2 THEN dfKey(token)
        ELSE tfKey(token, call.filename)

Running == {c \in DOMAIN calls : calls[c].pc # "done"}

InitConcurrent ==
    /\ db = EmptyStore
    /\ occ = <<>>
    /\ state = "open"
    /\ dfCache = loadDFCache(db, "open").dfCache
    /\ dfCacheNil = loadDFCache(db, "open").isNil
    /\ ret = Result("Open", <<>>, <<>>, "nil", <<>>)
    /\ allOk = TRUE
    /\ nAdds = 0
    /\ calls = <<>>

\* A caller enters Add.  overlapped records that it ran while another
\* caller was inside Add.
AddBegin(c, filename, contents) ==
    /\ state = "open"
    /\ c \notin DOMAIN calls
    /\ calls' = [o \in (DOMAIN calls) \cup {c} |->
                    IF o = c
                    THEN [filename |-> filename, tokens |-> tokenize(contents),
                          i |-> 1, k |-> 1, pc |-> "has", value |-> 0,
                          overlapped |-> Running # {}]
                    ELSE [calls[o] EXCEPT !.overlapped = @ \/ o \in Running]]
    /\ occ' = OccAfter(filename, contents)
    /\ nAdds' = nAdds + 1
    /\ UNCHANGED <<db, state, dfCache, dfCacheNil, ret, allOk>>

\* v.db.Has(keyBytes, nil)
HasStep(c) ==
    /\ state = "open"
    /\ c \in DOMAIN calls
    /\ calls[c].pc = "has"
    /\ calls' = [calls EXCEPT ![c].pc =
                    IF KeyOf(calls[c]) \in DOMAIN db THEN "get" ELSE "putOne"]
    /\ UNCHANGED <<db, state, dfCache, dfCacheNil, ret, occ, allOk, nAdds>>

\* v.db.Get(keyBytes, nil) and the checks on the value read
GetStep(c) ==
    /\ state = "open"
    /\ c \in DOMAIN calls
    /\ calls[c].pc = "get"
    /\ LET valueBytes == db[KeyOf(calls[c])]
           err == IF Len(valueBytes) = 0 THEN "panic"
                  ELSE IF Len(valueBytes) # 4 THEN "CorruptIndex"
                  ELSE IF Uint32(valueBytes) = MaxUint32 THEN "Overflow"
                  ELSE "nil"
       IN  /\ calls' = [calls EXCEPT
                           ![c].pc = IF err = "nil" THEN "put" ELSE "done",
                           ![c].value = IF err = "nil" THEN Uint32(valueBytes) ELSE 0]
           /\ ret' = IF err = "nil" THEN ret ELSE Result("Add", <<>>, <<>>, err, <<>>)
           /\ allOk' = (allOk /\ err = "nil")
           /\ state' = IF err = "panic" THEN "none" ELSE state
    /\ UNCHANGED <<db, dfCache, dfCacheNil, occ, nAdds>>

\* v.db.Put(keyBytes, valueBytes, nil), of 1 or of the value read plus 1; then
\* the next key, or the cache once the three keys are done
PutStep(c) ==
    /\ state = "open"
    /\ c \in DOMAIN calls
    /\ calls[c].pc \in {"putOne", "put"}
    /\ db' = Put(db, KeyOf(calls[c]),
                 PutUint32(IF calls[c].pc = "putOne" THEN 1 ELSE calls[c].value + 1))
    /\ calls' = [calls EXCEPT
                    ![c].pc = IF calls[c].k < 3 THEN "has" ELSE "cacheLoad",
                    ![c].k = IF calls[c].k < 3 THEN calls[c].k + 1 ELSE 1]
    /\ UNCHANGED <<state, dfCache, dfCacheNil, ret, occ, allOk, nAdds>>

\* v.dfCache[token]++ : the read of the map entry
CacheLoad(c) ==
    /\ state = "open"
    /\ c \in DOMAIN calls
    /\ calls[c].pc = "cacheLoad"
    /\ LET token == calls[c].tokens[calls[c].i]
       IN  calls' = [calls EXCEPT
                        ![c].pc = "cacheStore",
                        ![c].value = IF token \in DOMAIN dfCache THEN dfCache[token] ELSE 0]
    /\ UNCHANGED <<db, state, dfCache, dfCacheNil, ret, occ, allOk, nAdds>>

\* v.dfCache[token]++ : the write of the map entry; then the next token, or
\* the return of nil.  Two goroutines inside the map at once are a data
\* race: the runtime may stop the process (concurrent map writes) or let
\* both writes through.
CacheStore(c, throw) ==
    /\ state = "open"
    /\ c \in DOMAIN calls
    /\ calls[c].pc = "cacheStore"
    /\ throw => \E o \in DOMAIN calls : o # c /\ calls[o].pc = "cacheStore"
    /\ IF throw \/ dfCacheNil
       THEN /\ state' = "none"
            /\ ret' = Result("Add", <<>>, <<>>, "panic", <<>>)
            /\ allOk' = FALSE
            /\ UNCHANGED <<db, dfCache, dfCacheNil, occ, nAdds, calls>>
       ELSE LET call == calls[c]
                last == call.i = Len(call.tokens)
            IN  /\ dfCache' = [t \in (DOMAIN dfCache) \cup {call.tokens[call.i]} |->
                                  IF t = call.tokens[call.i]
                                  THEN (call.value + 1) % (MaxUint32 + 1)
                                  ELSE dfCache[t]]
                /\ calls' = [calls EXCEPT
                                ![c].pc = IF last THEN "done" ELSE "has",
                                ![c].i = IF last THEN call.i ELSE call.i + 1]
                /\ ret' = IF last THEN Result("Add", <<>>, <<>>, "nil", <<>>) ELSE ret
                /\ UNCHANGED <<db, state, dfCacheNil, occ, allOk, nAdds>>

NextConcurrent ==
    \E c \in Callers :
        \/ \E d \in Docs, x \in ConcurrentTexts : AddBegin(c, d, x)
        \/ HasStep(c)
        \/ GetStep(c)
        \/ PutStep(c)
        \/ CacheLoad(c)
        \/ \E throw \in BOOLEAN : CacheStore(c, throw)

SpecConcurrent == InitConcurrent /\ [][NextConcurrent]_vars

----------------------------------------------------------------------------
(* tokenize on its own, as TestTokenize drives it, followed by Add of the  *)
(* same input                                                               *)

\* A letter, the blank and the tab
TokenizeAlphabet == {104, 32, 9}
TokenizeInputs == UNION {[1..n -> TokenizeAlphabet] : n \in 0..MaxInputLen}

InitTokenize ==
    /\ db = EmptyStore
    /\ occ = <<>>
    /\ state = "open"
    /\ dfCache = loadDFCache(db, "open").dfCache
    /\ dfCacheNil = loadDFCache(db, "open").isNil
    /\ \E input \in TokenizeInputs : ret = Result("input", <<>>, input, "nil", <<>>)
    /\ allOk = TRUE
    /\ nAdds = 0
    /\ calls = <<>>

Tokenize ==
    /\ ret.op = "input"
    /\ ret' = Result("tokenize", <<>>, ret.text, "nil", tokenize(ret.text))
    /\ UNCHANGED <<db, state, dfCache, dfCacheNil, occ, allOk, nAdds, calls>>

\* Add(filename, input) on the open index
AddInput(filename) ==
    /\ ret.op # "input"
    /\ nAdds < MaxAdds
    /\ LET r == VectorAdd(db, state, dfCache, dfCacheNil, filename, ret.text)
       IN  /\ db' = r.db
           /\ dfCache' = r.dfCache
           /\ ret' = Result("Add", filename, ret.text, r.err, ret.result)
           /\ allOk' = (allOk /\ r.err = "nil")
    /\ occ' = OccAfter(filename, ret.text)
    /\ nAdds' = nAdds + 1
    /\ UNCHANGED <<state, dfCacheNil, calls>>

NextTokenize ==
    \/ Tokenize
    \/ \E d \in Docs : AddInput(d)

SpecTokenize == InitTokenize /\ [][NextTokenize]_vars

----------------------------------------------------------------------------
(* Claims *)

\* The 4-byte big-endian encoding of n, stated without PutUint32
BigEndian4(b, n) ==
    /\ Len(b) = 4
    /\ \A i \in 1..4 : b[i] \in 0..(ByteRadix - 1)
    /\ b[1] * ByteRadix * ByteRadix * ByteRadix + b[2] * ByteRadix * ByteRadix
         + b[3] * ByteRadix + b[4] = n

\* C1: after successful Add calls on an initially empty store, for every
\* document d and term t the counter under "ft"+d+0x00+t equals the counter
\* under "tf"+t+0x00+d and both equal the number of occurrences of t in the
\* tokenized texts passed to Add for d; a key is absent exactly when that
\* number is 0.
C1_CountsMatchOccurrences ==
    allOk =>
        \A d \in Docs, t \in Terms :
            LET fk == <<102, 116>> \o d \o <<0>> \o t
                tk == <<116, 102>> \o t \o <<0>> \o d
            IN  /\ (fk \in DOMAIN db) <=> (Occ(d, t) # 0)
                /\ (tk \in DOMAIN db) <=> (Occ(d, t) # 0)
                /\ fk \in DOMAIN db => BigEndian4(db[fk], Occ(d, t))
                /\ tk \in DOMAIN db => BigEndian4(db[tk], Occ(d, t))
                /\ FT(d, t) = TF(t, d)

\* C1 witness: two successful Adds have given some document a term twice and
\* both documents hold terms
C1_Witness ==
    /\ allOk
    /\ ret.op = "Add"
    /\ \E d \in Docs, t \in Terms : Occ(d, t) >= 2 /\ FT(d, t) >= 2
    /\ \A d \in Docs : \E t \in Terms : FT(d, t) >= 1

RECURSIVE SumFT(_, _)
SumFT(D, t) ==
    IF D = {} THEN 0
    ELSE LET d == CHOOSE d \in D : TRUE IN FT(d, t) + SumFT(D \ {d}, t)

\* C2: after any sequence of Add calls, whatever each returned, the Corpus
\* Term Count of every term equals the sum over all documents of FT(d,t).
C2_CorpusCountIsSum ==
    \A t \in Terms : CorpusCount(t) = SumFT(Docs, t)

\* C3: the cache equals the persisted Corpus Term Count mapping (same terms,
\* same values) right after every Add that returns success and right after
\* a Close followed by OpenVectorIndex.
C3_CacheMirrorsStore ==
    (ret.op \in {"Add", "Open"} /\ ret.err = "nil") =>
        /\ ~dfCacheNil
        /\ DOMAIN dfCache = {t \in Terms : <<100, 102>> \o t \in DOMAIN db}
        /\ \A k \in DOMAIN db :
               IsPrefix(<<100, 102>>, k) =>
                   \E t \in DOMAIN dfCache : k = <<100, 102>> \o t
        /\ \A t \in DOMAIN dfCache : BigEndian4(db[<<100, 102>> \o t], dfCache[t])

\* C3 witness: a reopened index whose location holds counts for two terms,
\* one of them counted more than once
C3_Witness ==
    /\ ret.op = "Open"
    /\ ret.err = "nil"
    /\ Cardinality(DOMAIN dfCache) >= 2
    /\ \E t \in DOMAIN dfCache : dfCache[t] >= 2

\* C4: increment applied n times to a key that is absent at first leaves the
\* 4-byte big-endian encoding of n; applied to a key holding the largest
\* value it returns Overflow and the stored value stays.
C4_IncrementCounts ==
    \A key \in IncKeys :
        /\ occ[key] = 0 => key \notin DOMAIN db
        /\ (occ[key] >= 1 /\ occ[key] <= MaxUint32) =>
               /\ key \in DOMAIN db
               /\ BigEndian4(db[key], occ[key])
               /\ ret.filename = key => ret.err = "nil"
        /\ occ[key] > MaxUint32 =>
               /\ key \in DOMAIN db
               /\ BigEndian4(db[key], MaxUint32)
               /\ ret.filename = key => ret.err = "Overflow"

\* C4 witness: a call of increment on a key at the largest value has returned
C4_Witness ==
    /\ ret.op = "increment"
    /\ occ[ret.filename] = MaxUint32 + 2
    /\ \E key \in IncKeys : occ[key] >= 1 /\ occ[key] < MaxUint32

NoDuplicates(seq) == \A i, j \in 1..Len(seq) : i # j => seq[i] # seq[j]

\* C5: a successful Search returns every name at most once, and exactly the
\* documents d for which some term t of the tokenized query has a persisted
\* key "tf"+t+0x00+d; a document that only has a term of which the query
\* term is a proper prefix is not returned.
C5_SearchReturnsCandidates ==
    (ret.op = "Search" /\ ret.err = "nil") =>
        /\ NoDuplicates(ret.result)
        /\ Range(ret.result) =
              {d \in Docs : \E t \in Range(tokenize(ret.text)) :
                                <<116, 102>> \o t \o <<0>> \o d \in DOMAIN db}

\* The weights and the score as the claim states them, from the persisted
\* counters
ClaimScore(query, d) ==
    LET tokens == tokenize(query)
        stored == {SubSeq(k, 3, Len(k)) : k \in {k \in DOMAIN db : IsPrefix(<<100, 102>>, k)}}
        qTerms == {t \in Range(tokens) : CorpusCount(t) # 0}
        dTerms == {t \in stored : FT(d, t) # 0}
        qw == [t \in qTerms |-> FDiv(Fin(Count(tokens, t), 1), Fin(CorpusCount(t), 1))]
        dw == [t \in dTerms |-> FDiv(Fin(FT(d, t), 1), Fin(CorpusCount(t), 1))]
        dot == FSum(qTerms \cap dTerms, [t \in qTerms \cap dTerms |-> FMul(qw[t], dw[t])])
        magq == FSum(qTerms, [t \in qTerms |-> FMul(qw[t], qw[t])])
        magd == FSum(dTerms, [t \in dTerms |-> FMul(dw[t], dw[t])])
    IN  FDiv(dot, FMul(magq, magd))

ScenarioAOcc ==
    (<<<<97>>, hello>> :> 4) @@ (<<<<97>>, world>> :> 1) @@
    (<<<<98>>, hello>> :> 1) @@ (<<<<98>>, tiger>> :> 2) @@
    (<<<<99>>, rumic>> :> 1) @@ (<<<<99>>, tiger>> :> 1)

C7_ClosedIndexRejectsCalls ==
    (state = "closed" /\ ret.op \in {"Add", "Search"}) => ret.err # "nil"

\* C8: documentVector(d) has an entry for exactly the terms t with nonzero
\* persisted FT(d,t), and the entry equals FT(d,t) / CorpusCount(t).
\* documentVector is reached from Search only, for a candidate that the scan
\* of an open store has produced, so it is stated for the open index.
C8_DocumentVectorWeights ==
    state = "open" =>
        \A d \in Docs :
            LET r == documentVector(db, state, dfCache, d)
            IN  /\ r.err = "nil"
                /\ DOMAIN r.vec = {t \in Terms : FT(d, t) # 0}
                /\ \A t \in DOMAIN r.vec :
                      /\ r.vec[t].k = "fin"
                      /\ r.vec[t].n * CorpusCount(t) = FT(d, t) * r.vec[t].d

\* C8 witness: Search has scored a document whose weight for a term another
\* document's Add has lowered to 1/2
C8_Witness ==
    /\ state = "open"
    /\ ret.op = "Search"
    /\ \E d \in Range(ret.result), t \in Terms :
          /\ FT(d, t) = 1
          /\ CorpusCount(t) = 2
          /\ documentVector(db, state, dfCache, d).vec[t] = Fin(1, 2)

\* C9: the presence-only Search(term) returns exactly the documents d for
\* which an earlier Add(d, text) had term among the tokens of text, each once,
\* in ascending byte order of the document name.
C9_InvertedSearchResult ==
    ret.op = "Search" =>
        /\ ret.err = "nil"
        /\ ret.result = SortedKeys({d \in InvertedDocs : Occ(d, ret.text) # 0})

\* C10: OpenVectorIndex on a store with a value under the "df" prefix that is
\* not 4 bytes long does not succeed, and leaves no usable index with an
\* unpopulated cache.
C10_OpenRejectsMalformedDF ==
    /\ (ret.op = "Open" /\ \E k \in DOMAIN db : IsPrefix(<<100, 102>>, k) /\ Len(db[k]) # 4)
          => ret.err # "nil"
    /\ state = "open" => ~dfCacheNil

\* C11: increment on a key that is present with a value whose length is not
\* 4 (length 0 included) returns CorruptIndex and writes nothing; it neither
\* reads the value as 0 nor ends abnormally.
C11_IncrementRejectsBadLength ==
    [][\A key \in IncKeys :
          (/\ ret'.op = "increment"
           /\ ret'.filename = key
           /\ key \in DOMAIN db
           /\ Len(db[key]) # 4)
          => (ret'.err = "CorruptIndex" /\ db' = db /\ state' = state)]_vars

\* C12: every store failure met inside Add or Search (a failing has, get, put
\* or prefix scan) makes the call return the error at once: the call puts
\* nothing after it and returns no successful or partial result.
C12_StoreFailureAborts ==
    (ret.op \in {"Add", "Search"} /\ ret.met) =>
        /\ ret.err # "nil"
        /\ ~ret.late
        /\ ret.result = <<>>

CacheValue(cache, t) == IF t \in DOMAIN cache THEN cache[t] ELSE 0

\* C13: when Add(d, text) of the vector index returns an error at the i-th
\* token, every token before it has added one per occurrence to FT, to the
\* Corpus Term Count, to TF and to the cache entry of its term, and nothing
\* has changed for a token after it.  The counters of the i-th token's own
\* term are left open: the call stopped in the middle of them.
C13_FailedAddKeepsEarlierTokens ==
    [][(ret'.op = "Add" /\ ret'.err \notin {"nil", "panic"}) =>
          LET d == ret'.filename
              tokens == tokenize(ret'.text)
              i == ret'.at
              before(t) == Count(SubSeq(tokens, 1, i - 1), t)
              grown(key) == Counter(db', key) - Counter(db, key)
          IN  \A t \in Terms :
                 /\ t # tokens[i] =>
                       /\ grown(<<102, 116>> \o d \o <<0>> \o t) = before(t)
                       /\ grown(<<100, 102>> \o t) = before(t)
                       /\ grown(<<116, 102>> \o t \o <<0>> \o d) = before(t)
                 /\ CacheValue(dfCache', t) = CacheValue(dfCache, t) + before(t)
                 /\ \A e \in Docs \ {d} :
                       /\ grown(<<102, 116>> \o e \o <<0>> \o t) = 0
                       /\ grown(<<116, 102>> \o t \o <<0>> \o e) = 0]_vars

\* C14: on a location no Add has been called on, the cache is empty after
\* OpenVectorIndex and stays empty over Search calls and over Close followed
\* by OpenVectorIndex, and every Search returns the empty list and no error.
C14_EmptyIndexStaysEmpty ==
    nAdds = 0 =>
        /\ DOMAIN dfCache = {}
        /\ ret.op = "Open" /\ ret.err = "nil" => ~dfCacheNil
        /\ ret.op = "Search" => (ret.err = "nil" /\ ret.result = <<>>)

\* C14 witness: a Search for a word has answered on the open index before
\* any Add
C14_Witness ==
    /\ nAdds = 0
    /\ state = "open"
    /\ ret.op = "Search"
    /\ ret.text = <<104, 32, 104, 104>>

\* C15: with a single caller FT(d,t) = TF(t,d) for every document d and term
\* t in every state between two public operations, the state an Add that
\* returned an error leaves included.
C15_FTEqualsTF ==
    \A d \in Docs, t \in Terms : FT(d, t) = TF(t, d)

\* C16: over any sequence of Open, Add, Search and Close by a single caller
\* no persisted counter key is removed, and no persisted counter and no
\* cache value gets smaller, also when a store operation fails inside an Add.
C16_NeverRemovedNeverDecreased ==
    [][/\ \A k \in DOMAIN db :
             k \in DOMAIN db' /\ Uint32(db'[k]) >= Uint32(db[k])
       /\ \A t \in DOMAIN dfCache :
             t \in DOMAIN dfCache' /\ dfCache'[t] >= dfCache[t]]_vars

C18_TokenizeBoundaries ==
    ret.op \in {"tokenize", "Add"} =>
        LET input == ret.text
            tokens == ret.result
            ws == {9, 10, 12, 13, 32}
        IN  /\ Len(tokens) >= 1
            /\ input = <<>> => tokens = << <<>> >>
            /\ \A i \in 1..Len(tokens) : \A j \in 1..Len(tokens[i]) : tokens[i][j] \notin ws
            /\ \A i \in 2..(Len(tokens) - 1) : tokens[i] # <<>>
            /\ (input # <<>> /\ input[1] \in ws) => tokens[1] = <<>>
            /\ (input # <<>> /\ input[Len(input)] \in ws) => tokens[Len(tokens)] = <<>>
            /\ (ret.op = "Add" /\ input = <<>>) =>
                  /\ ret.err = "nil"
                  /\ CorpusCount(<<>>) = nAdds
                  /\ SumFT(Docs, <<>>) = nAdds
                  /\ FT(ret.filename, <<>>) >= 1
                  /\ \A d \in Docs : FT(d, <<>>) = TF(<<>>, d)

\* C18 witness: the empty input has been tokenized and added twice
C18_Witness ==
    /\ ret.op = "Add"
    /\ ret.text = <<>>
    /\ ret.result = << <<>> >>
    /\ CorpusCount(<<>>) = 2

\* C19: in every state a single caller reaches from an empty store by Open,
\* Add (returning nil or an error), Close and reopen, every persisted key
\* "tf"+t+0x00+d comes with a persisted FT(d,t) >= 1 and a cache entry of t
\* that is >= 1; so for every candidate Search scores, the magnitudes of the
\* query vector and of the document vector are finite and not 0, and the
\* score is a finite number.
C19_ScoresAreFinite ==
    /\ \A d \in Docs, t \in Terms :
          <<116, 102>> \o t \o <<0>> \o d \in DOMAIN db =>
              /\ FT(d, t) >= 1
              /\ t \in DOMAIN dfCache
              /\ dfCache[t] >= 1
    /\ \A k \in DOMAIN db :
          IsPrefix(<<116, 102>>, k) =>
              \E d \in Docs, t \in Terms : k = <<116, 102>> \o t \o <<0>> \o d
    /\ \A q \in Queries : \A d \in SearchScan(db, state, q).candidates :
          LET mq == magnitude(queryVector(dfCache, q))
              dv == documentVector(db, state, dfCache, d)
              md == magnitude(dv.vec)
              r == queryDocumentSimilarity(db, state, dfCache, q, d)
          IN  /\ dv.err = "nil"
              /\ mq.k = "fin" /\ mq.n > 0
              /\ md.k = "fin" /\ md.n > 0
              /\ r.err = "nil"
              /\ r.score.k = "fin"

\* C19 witness: after an Add that returned an error, Search has scored a
\* candidate on the reopened index for a query of two terms
C19_Witness ==
    /\ ~allOk
    /\ state = "open"
    /\ ret.op = "Search"
    /\ ret.err = "nil"
    /\ ret.text = <<104, 32, 104, 104>>
    /\ Len(ret.result) >= 1

\* C20: Search of either index only reads: whatever the query, and whether it
\* returns a list or an error, every persisted key and value stays as it
\* was, and the cache of the vector index stays as it was (a query term the
\* cache lacks gets no entry).
C20_SearchReadsOnly ==
    [][ret'.op = "Search" =>
          /\ db' = db
          /\ dfCache' = dfCache
          /\ dfCacheNil' = dfCacheNil
          /\ state' = state]_vars

\* C20 witness: the vector index holds counters and has answered a query for
\* a word no text holds; the cache has no entry for it
C20_Witness ==
    /\ ~dfCacheNil
    /\ state = "open"
    /\ ret.op = "Search"
    /\ ret.text = <<104, 104, 104>>
    /\ db # EmptyStore
    /\ <<104, 104, 104>> \notin DOMAIN dfCache

====
